---- MODULE Spec2Model ----
(***************************************************************************)
(* GPSTracker (src/GPS_tracker.py): a background worker reads NMEA lines   *)
(* from a serial line source, decodes fix sentences into Positions, stores *)
(* them under a lock (last position + bounded history) and invokes a       *)
(* callback.  Callers run start()/stop()/set_callback(), readers run       *)
(* get_last()/get_history().                                               *)
(*                                                                         *)
(* Strings are sequences of one-character strings.  Floats are exact       *)
(* rationals <<numerator, denominator>>.  pynmea2.parse and the serial     *)
(* port are external: their outcomes (frame validity, open/read failure)   *)
(* are inputs chosen nondeterministically.                                 *)
(***************************************************************************)
EXTENDS Integers, Sequences, FiniteSets, TLC

\* ---------------------------------------------------------------- bounds
\* largest history_size tried (deque(maxlen=history_size))
MaxCap == 2
\* number of non-empty lines the line source delivers in one run
MaxLines == 2
\* number of Thread objects start() may create in one run
MaxThreads == 2
\* longest angle string given to _nmea_to_decimal
MaxCoordLen == 5

None == "None"

\* ------------------------------------------------- strings and numbers
Digits == {"0", "1", "2", "3", "4", "5", "6", "7", "8", "9"}

DigitVal(c) ==
  CASE c = "0" -> 0 [] c = "1" -> 1 [] c = "2" -> 2 [] c = "3" -> 3
    [] c = "4" -> 4 [] c = "5" -> 5 [] c = "6" -> 6 [] c = "7" -> 7
    [] c = "8" -> 8 [] c = "9" -> 9

Min(a, b) == IF a <= b THEN a ELSE b

\* s[:n] and s[n:] of Python, for n >= 0
Take(s, n) == SubSeq(s, 1, Min(n, Len(s)))
Drop(s, n) == SubSeq(s, Min(n, Len(s)) + 1, Len(s))

\* str.find('.'): 0-based index of the first dot, -1 when there is none
Find(s) ==
  IF \E i \in 1..Len(s) : s[i] = "."
  THEN (CHOOSE i \in 1..Len(s) : s[i] = "." /\ \A j \in 1..(i-1) : s[j] # ".") - 1
  ELSE -1

RECURSIVE Pow10(_)
Pow10(n) == IF n = 0 THEN 1 ELSE 10 * Pow10(n - 1)

RECURSIVE DigitsToNat(_)
DigitsToNat(s) ==
  IF s = <<>> THEN 0 ELSE 10 * DigitsToNat(Take(s, Len(s) - 1)) + DigitVal(s[Len(s)])

\* float(s) succeeds, for s over digits, "." and junk characters: at most
\* one dot, at least one digit, nothing else
FloatOk(s) ==
  /\ \A i \in 1..Len(s) : s[i] \in Digits \cup {"."}
  /\ Cardinality({i \in 1..Len(s) : s[i] = "."}) <= 1
  /\ \E i \in 1..Len(s) : s[i] \in Digits

\* float(s) as <<numerator, denominator>>
FloatVal(s) ==
  LET d == Find(s)
      ip == IF d = -1 THEN s ELSE Take(s, d)
      fp == IF d = -1 THEN <<>> ELSE Drop(s, d + 1)
  IN <<DigitsToNat(ip) * Pow10(Len(fp)) + DigitsToNat(fp), Pow10(Len(fp))>>

\* ------------------------------------------------ _nmea_to_decimal
deg_len(coord_str) ==
  LET dot_pos == Find(coord_str)
  IN IF dot_pos = -1
     THEN (IF Len(coord_str) <= 4 THEN 2 ELSE Len(coord_str) - 4)
     ELSE (IF dot_pos <= 4 THEN 2 ELSE dot_pos - 2)

\* TRUE when _nmea_to_decimal raises ValueError
nmea_to_decimal_raises(coord_str) ==
  \/ coord_str = <<>>
  \/ ~FloatOk(Take(coord_str, deg_len(coord_str)))
  \/ ~FloatOk(Drop(coord_str, deg_len(coord_str)))

\* degrees + minutes / 60, negated for S and W
nmea_to_decimal(coord_str, direction) ==
  LET degrees == FloatVal(Take(coord_str, deg_len(coord_str)))
      minutes == FloatVal(Drop(coord_str, deg_len(coord_str)))
      num == degrees[1] * minutes[2] * 60 + minutes[1] * degrees[2]
      den == degrees[2] * minutes[2] * 60
  IN IF direction \in {"S", "W"} THEN <<-num, den>> ELSE <<num, den>>

\* ------------------------------------------------ timestamps
\* time.mktime of today's local date and the sentence's time of day
\* an absent timestamp is <<>>; "bad" is a time field pynmea2 could not
\* convert (a raw string: t.hour raises, the except returns None)
nmea_time_to_epoch(nmea_time) ==
  IF nmea_time = None \/ nmea_time = "bad" THEN <<>> ELSE <<"today", nmea_time>>

nmea_datetime_to_epoch(datestamp, timestamp) ==
  IF datestamp = None \/ timestamp = None
  THEN nmea_time_to_epoch(timestamp)
  ELSE IF timestamp = "bad" THEN <<>> ELSE <<datestamp, timestamp>>

\* ------------------------------------------------ lines of the source
\* A line as pynmea2.parse sees it.  frame: "blank" (whitespace only),
\* "badsum" (ChecksumError), "unparse" (ParseError), "ok" (a message).
\* has_alt = FALSE: the message type has no attribute alt (msg.alt raises
\* AttributeError; pynmea2 names the GGA field altitude).  An absent or
\* empty field is <<>>.
Str_4916_45 == <<"4", "9", "1", "6", ".", "4", "5">>
Str_12311_12 == <<"1", "2", "3", "1", "1", ".", "1", "2">>
Str_0130_5 == <<"0", "1", "3", "0", ".", "5">>
Str_00215_0 == <<"0", "0", "2", "1", "5", ".", "0">>
Str_49x6_45 == <<"4", "9", "x", "6", ".", "4", "5">>
Str_545_4 == <<"5", "4", "5", ".", "4">>

Msg(kind, lat, lat_dir, lon, lon_dir, has_alt, alt, status, datestamp, timestamp) ==
  [frame |-> "ok", kind |-> kind, lat |-> lat, lat_dir |-> lat_dir,
   lon |-> lon, lon_dir |-> lon_dir, has_alt |-> has_alt, alt |-> alt,
   status |-> status, datestamp |-> datestamp, timestamp |-> timestamp]

Framed(frame) ==
  [frame |-> frame, kind |-> None, lat |-> <<>>, lat_dir |-> None,
   lon |-> <<>>, lon_dir |-> None, has_alt |-> FALSE, alt |-> <<>>,
   status |-> None,
   datestamp |-> None, timestamp |-> None]

LineBlank == Framed("blank")
\* a well-formed fix sentence whose checksum was corrupted
LineBadSum ==
  [Msg("GGA", Str_4916_45, "N", Str_12311_12, "W", TRUE, Str_545_4, None, None, "t1")
     EXCEPT !.frame = "badsum"]
LineUnparse == Framed("unparse")
LineGGA == Msg("GGA", Str_4916_45, "N", Str_12311_12, "W", TRUE, Str_545_4, None, None, "t1")
LineGGANoAttr == Msg("GGA", Str_4916_45, "N", Str_12311_12, "W", FALSE, <<>>, None, None, "t1")
LineGGAEmpty == Msg("GGA", <<>>, None, <<>>, None, TRUE, <<>>, None, None, "t1")
LineGGABadAngle == Msg("GGA", Str_49x6_45, "N", Str_12311_12, "W", TRUE, Str_545_4, None, None, "t1")
LineRMC == Msg("RMC", Str_0130_5, "S", Str_00215_0, "E", FALSE, <<>>, "A", "d1", "t1")
LineRMCBadAngle == Msg("RMC", Str_4916_45, "N", Str_49x6_45, "W", FALSE, <<>>, "A", "d1", "t1")
LineRMCVoid == Msg("RMC", Str_4916_45, "N", Str_12311_12, "W", FALSE, <<>>, "V", "d1", "t1")
LineGSV == Msg("GSV", <<>>, None, <<>>, None, FALSE, <<>>, None, None, None)
\* a sentence kind that carries coordinates but is not interpreted
LineGLL == Msg("GLL", Str_4916_45, "N", Str_12311_12, "W", FALSE, <<>>, "A", None, "t1")

Lines ==
  {LineBlank, LineBadSum, LineUnparse, LineGGA, LineGGANoAttr, LineGGAEmpty,
   LineGGABadAngle, LineRMC, LineRMCBadAngle, LineRMCVoid, LineGSV, LineGLL}

\* characters of the latitude / longitude field of a parsed sentence
CoordChars == {"1", "9", "."}

\* every field value of at most MaxCoordLen characters (pynmea2 hands the
\* field over as the string found between the commas)
CoordStrings == UNION {[1..k -> CoordChars] : k \in 0..MaxCoordLen}

\* parsed fix sentences: an RMC with every latitude, a GGA with every
\* longitude
ConvLines ==
  {Msg("RMC", lat, d, Str_00215_0, "E", FALSE, <<>>, "A", "d1", "t1") :
     lat \in CoordStrings, d \in {"N", "S"}}
  \cup
  {Msg("GGA", Str_4916_45, "N", lon, d, TRUE, Str_545_4, None, None, "t1") :
     lon \in CoordStrings, d \in {"E", "W"}}

Position(lat, lon, alt, timestamp) ==
  [lat |-> lat, lon |-> lon, alt |-> alt, timestamp |-> timestamp]

\* ------------------------------------------------ decoding one line
\* faulty variant: the checksum is not verified
parse_rejects_no_checksum(line) == line.frame = "unparse"

\* pynmea2.parse raises ChecksumError or ParseError: the line is dropped
parse_rejects(line) == line.frame \in {"badsum", "unparse"}

\* float(msg.alt) if msg.alt not in (None, '') else None
alt_raises(msg) ==
  \/ ~msg.has_alt
  \/ msg.alt # <<>> /\ ~FloatOk(msg.alt)

\* an absent altitude is <<>>
alt_value(msg) ==
  IF msg.alt = <<>> THEN <<>> ELSE FloatVal(msg.alt)

\* faulty variant: the RMC status flag is not tested
has_fix_ignores_status(msg) ==
  /\ msg.kind \in {"GGA", "RMC"}
  /\ msg.lat # <<>>
  /\ msg.lon # <<>>

\* faulty variant: the sentence kind is not tested
has_fix_any_kind(msg) ==
  /\ msg.lat # <<>>
  /\ msg.lon # <<>>
  /\ msg.kind = "RMC" => msg.status = "A"

\* if msg.lat and msg.lon [and msg.status == 'A']
has_fix(msg) ==
  \/ msg.kind = "GGA" /\ msg.lat # <<>> /\ msg.lon # <<>>
  \/ msg.kind = "RMC" /\ msg.lat # <<>> /\ msg.lon # <<>> /\ msg.status = "A"

\* an exception leaves the body of the loop for the outer handler
decode_raises(msg) ==
  /\ has_fix(msg)
  /\ \/ nmea_to_decimal_raises(msg.lat)
     \/ nmea_to_decimal_raises(msg.lon)
     \/ msg.kind = "GGA" /\ alt_raises(msg)

\* the exception raised: float() raises ValueError, msg.alt AttributeError
decode_exception(msg) ==
  IF nmea_to_decimal_raises(msg.lat) \/ nmea_to_decimal_raises(msg.lon)
  THEN "ValueError"
  ELSE IF ~msg.has_alt THEN "AttributeError" ELSE "ValueError"

decode_pos(msg) ==
  IF msg.kind = "GGA"
  THEN Position(nmea_to_decimal(msg.lat, msg.lat_dir),
                nmea_to_decimal(msg.lon, msg.lon_dir),
                alt_value(msg), nmea_time_to_epoch(msg.timestamp))
  ELSE Position(nmea_to_decimal(msg.lat, msg.lat_dir),
                nmea_to_decimal(msg.lon, msg.lon_dir),
                <<>>, nmea_datetime_to_epoch(msg.datestamp, msg.timestamp))

\* what the loop body does with one non-empty line:
\* "skip" (continue), "raise" (outer except), "pos" (a Position to record)
Decode(line) ==
  IF line.frame = "blank" \/ parse_rejects(line) THEN "skip"
  ELSE IF ~has_fix(line) THEN "skip"
  ELSE IF decode_raises(line) THEN "raise"
  ELSE "pos"

\* the loop body's outcome for every line, computed once: what it does,
\* the Position built (when there is one), the exception (when raised)
decoded ==
  [line \in Lines \cup ConvLines |->
     [outcome |-> Decode(line),
      pos |-> IF Decode(line) = "pos" THEN decode_pos(line) ELSE [none |-> TRUE],
      exc |-> IF Decode(line) = "raise" THEN decode_exception(line) ELSE ""]]

\* faulty variant: append without eviction
deque_append_unbounded(h, pos, maxlen) == Append(h, pos)

\* deque(maxlen=capacity).append(pos)
deque_append(h, pos, maxlen) ==
  IF maxlen = 0 THEN h
  ELSE IF Len(h) < maxlen THEN Append(h, pos)
  ELSE Append(Tail(h), pos)

\* ------------------------------------------------------------ state
VARIABLES
  capacity,       \* history_size given to the constructor (deque maxlen)
  history,        \* self._history
  last_position,  \* self._last_position (NoPos = None)
  lock,           \* holder of self._lock: <<>> free, <<"w", w>>, <<"r">>
  callback,       \* self._callback
  stop_event,     \* self._stop_event.is_set()
  thread,         \* self._thread: 0 = None, else a worker
  ser,            \* self._ser: "None", "open", "closed"
  wpc,            \* per Thread object: where it is in _read_loop
  wline,          \* per worker: the line just read (NoLine when none)
  wpos,           \* per worker: local pos (NoPos when none)
  wexc,           \* per worker: exception being handled ("" when none)
  callers,        \* the threads that call start() and stop()
  cpc,            \* per caller: where it is in start() or stop()
  cres,           \* per caller: how its last call ended
  crun,           \* per caller: a worker was alive when its call began
  rpc,            \* reader: idle, or inside get_last / get_history
  lines_left,     \* non-empty lines the line source has yet to deliver
  snap,           \* the list a consumer keeps from get_history()
  log             \* <<event, position, self._callback>> in order: "record",
                  \* "callback" (invoked), "nocallback" (none registered)

vars ==
  <<capacity, history, last_position, lock, callback, stop_event, thread, ser,
    wpc, wline, wpos, wexc, callers, cpc, cres, crun, rpc, lines_left, log,
    snap>>

Workers == 1..MaxThreads
Callbacks == {"cb1"}
NoPos == [none |-> TRUE]
NoLine == Framed("none")
\* no list kept.  taken: get_history() has returned one; alias: the list
\* is the store's own container; val: the list's elements when it is a
\* container of its own; edits: changes the consumer made to it
NoSnap == [taken |-> FALSE, alias |-> FALSE, val |-> <<>>, edits |-> 0]

store == <<history, last_position>>
wlocal == <<wline, wpos, wexc>>
cvars == <<callers, cpc, cres, crun>>

\* Thread.is_alive(): started and not yet returned from _read_loop
is_alive(t) == wpc[t] \notin {"unused", "created", "done", "failed"}

AliveWorkers == {w \in Workers : is_alive(w)}

InitWith(cs, caps, nlines) ==
  /\ capacity \in caps
  /\ history = <<>>
  /\ last_position = NoPos
  /\ lock = <<>>
  /\ callback = None
  /\ stop_event = FALSE
  /\ thread = 0
  /\ ser = "None"
  /\ wpc = [w \in Workers |-> "unused"]
  /\ wline = [w \in Workers |-> NoLine]
  /\ wpos = [w \in Workers |-> NoPos]
  /\ wexc = [w \in Workers |-> ""]
  /\ callers = cs
  /\ cpc = [c \in cs |-> "idle"]
  /\ cres = [c \in cs |-> "none"]
  /\ crun = [c \in cs |-> FALSE]
  /\ rpc = "idle"
  /\ lines_left = nlines
  /\ log = <<>>
  /\ snap = NoSnap

\* one thread drives start()/stop()
Init == InitWith({1}, 0..MaxCap, MaxLines)

\* two threads call start()/stop() concurrently (capacity 1, one line left)
InitConc == InitWith({1, 2}, {1}, 1)

\* ------------------------------------------------------- set_callback
set_callback(cb) ==
  /\ callback # cb
  /\ callback' = cb
  /\ UNCHANGED <<capacity, snap, store, lock, stop_event, thread, ser, wpc, wlocal,
                 cvars, rpc, lines_left, log>>

\* ------------------------------------------------------------ start()
\* if self._thread and self._thread.is_alive(): return
StartCheck(c) ==
  /\ cpc[c] = "idle"
  /\ crun' = [crun EXCEPT ![c] = AliveWorkers # {}]
  /\ IF thread # 0 /\ is_alive(thread)
     THEN /\ cres' = [cres EXCEPT ![c] = "start:noop"]
          /\ cpc' = cpc
     ELSE /\ \E w \in Workers : wpc[w] = "unused"
          /\ cres' = [cres EXCEPT ![c] = "start:running"]
          /\ cpc' = [cpc EXCEPT ![c] = "start_clear"]
  /\ UNCHANGED <<capacity, snap, store, lock, callback, stop_event, thread, ser, wpc,
                 wlocal, callers, rpc, lines_left, log>>

\* faulty variant: start() also resets the store
StartClear_resets_store(c) ==
  /\ cpc[c] = "start_clear"
  /\ stop_event' = FALSE
  /\ history' = <<>>
  /\ last_position' = NoPos
  /\ cpc' = [cpc EXCEPT ![c] = "start_create"]
  /\ UNCHANGED <<capacity, snap, lock, callback, thread, ser, wpc, wlocal,
                 callers, cres, crun, rpc, lines_left, log>>

\* self._stop_event.clear()
StartClear(c) ==
  /\ cpc[c] = "start_clear"
  /\ stop_event' = FALSE
  /\ cpc' = [cpc EXCEPT ![c] = "start_create"]
  /\ UNCHANGED <<capacity, snap, store, lock, callback, thread, ser, wpc, wlocal,
                 callers, cres, crun, rpc, lines_left, log>>

\* self._thread = threading.Thread(target=self._read_loop, daemon=True)
StartCreate(c) ==
  /\ cpc[c] = "start_create"
  /\ \E w \in Workers :
       /\ wpc[w] = "unused"
       /\ \A v \in Workers : wpc[v] = "unused" => w <= v
       /\ wpc' = [wpc EXCEPT ![w] = "created"]
       /\ thread' = w
  /\ cpc' = [cpc EXCEPT ![c] = "start_run"]
  /\ UNCHANGED <<capacity, snap, store, lock, callback, stop_event, ser, wlocal,
                 callers, cres, crun, rpc, lines_left, log>>

\* self._thread.start(): starting a started Thread raises RuntimeError
StartRun(c) ==
  /\ cpc[c] = "start_run"
  /\ IF wpc[thread] = "created"
     THEN /\ wpc' = [wpc EXCEPT ![thread] = "open"]
          /\ cres' = [cres EXCEPT ![c] = "start:returned"]
     ELSE /\ wpc' = wpc
          /\ cres' = [cres EXCEPT ![c] = "start:RuntimeError"]
  /\ cpc' = [cpc EXCEPT ![c] = "idle"]
  /\ UNCHANGED <<capacity, snap, store, lock, callback, stop_event, thread, ser,
                 wlocal, callers, crun, rpc, lines_left, log>>

\* ------------------------------------------------------------- stop()
\* self._stop_event.set()
StopSet(c) ==
  /\ cpc[c] = "idle"
  /\ stop_event' = TRUE
  /\ crun' = [crun EXCEPT ![c] = AliveWorkers # {}]
  /\ cres' = [cres EXCEPT ![c] = "stop:running"]
  /\ cpc' = [cpc EXCEPT ![c] = "stop_join"]
  /\ UNCHANGED <<capacity, snap, store, lock, callback, thread, ser, wpc, wlocal,
                 callers, rpc, lines_left, log>>

\* if self._thread: self._thread.join(timeout=2.0)
\* join returns when the thread has ended or when the 2 s have passed;
\* joining a Thread that was never started raises RuntimeError
StopJoin(c) ==
  /\ cpc[c] = "stop_join"
  /\ IF thread # 0 /\ wpc[thread] = "created"
     THEN /\ cres' = [cres EXCEPT ![c] = "stop:RuntimeError"]
          /\ cpc' = [cpc EXCEPT ![c] = "idle"]
     ELSE /\ cres' = cres
          /\ cpc' = [cpc EXCEPT ![c] = "stop_close"]
  /\ UNCHANGED <<capacity, snap, store, lock, callback, stop_event, thread, ser, wpc,
                 wlocal, callers, crun, rpc, lines_left, log>>

\* if self._ser and self._ser.is_open: self._ser.close()
StopClose(c) ==
  /\ cpc[c] = "stop_close"
  /\ ser' = IF ser = "open" THEN "closed" ELSE ser
  /\ cres' = [cres EXCEPT ![c] = "stop:returned"]
  /\ cpc' = [cpc EXCEPT ![c] = "idle"]
  /\ UNCHANGED <<capacity, snap, store, lock, callback, stop_event, thread, wpc,
                 wlocal, callers, crun, rpc, lines_left, log>>

\* ------------------------------------------------------- _read_loop
Goto(w, loc) == wpc' = [wpc EXCEPT ![w] = loc]

\* try: self._open_serial() except Exception: print; return
\* _open_serial returns at once when the port is already open
WOpen(w) ==
  /\ wpc[w] = "open"
  /\ \/ /\ ser = "open"
        /\ ser' = ser
        /\ Goto(w, "check")
     \/ /\ ser # "open"
        /\ ser' = "open"
        /\ Goto(w, "check")
     \/ /\ ser # "open"
        /\ ser' = ser
        /\ Goto(w, "failed")
  /\ UNCHANGED <<capacity, snap, store, lock, callback, stop_event, thread, wlocal,
                 cvars, rpc, lines_left, log>>

\* faulty variant: the loop does not test the stop flag
WCheck_ignores_stop(w) ==
  /\ wpc[w] = "check"
  /\ Goto(w, "read")
  /\ UNCHANGED <<capacity, snap, store, lock, callback, stop_event, thread, ser,
                 wlocal, cvars, rpc, lines_left, log>>

\* while not self._stop_event.is_set():
WCheck(w) ==
  /\ wpc[w] = "check"
  /\ Goto(w, IF stop_event THEN "done" ELSE "read")
  /\ UNCHANGED <<capacity, snap, store, lock, callback, stop_event, thread, ser,
                 wlocal, cvars, rpc, lines_left, log>>

\* line = self._ser.readline(): b'' on timeout, an exception on a read
\* failure or a closed port, else a line
WRead(w) ==
  /\ wpc[w] = "read"
  /\ \/ /\ ser = "open"
        /\ Goto(w, "check")
        /\ UNCHANGED <<wline, wexc, lines_left>>
     \/ /\ wexc' = [wexc EXCEPT ![w] = "SerialException"]
        /\ Goto(w, "except")
        /\ UNCHANGED <<wline, lines_left>>
     \/ /\ ser = "open"
        /\ lines_left > 0
        /\ \E line \in Lines : wline' = [wline EXCEPT ![w] = line]
        /\ lines_left' = lines_left - 1
        /\ Goto(w, "decode")
        /\ UNCHANGED wexc
  /\ UNCHANGED <<capacity, snap, store, lock, callback, stop_event, thread, ser,
                 wpos, cvars, rpc, log>>

\* strip, pynmea2.parse, GGA / RMC extraction
WDecode(w) ==
  /\ wpc[w] = "decode"
  /\ wline' = [wline EXCEPT ![w] = NoLine]
  /\ CASE decoded[wline[w]].outcome = "skip" ->
            /\ Goto(w, "check")
            /\ UNCHANGED <<wpos, wexc>>
       [] decoded[wline[w]].outcome = "raise" ->
            /\ Goto(w, "except")
            /\ wexc' = [wexc EXCEPT ![w] = decoded[wline[w]].exc]
            /\ UNCHANGED wpos
       [] decoded[wline[w]].outcome = "pos" ->
            /\ Goto(w, "lock")
            /\ wpos' = [wpos EXCEPT ![w] = decoded[wline[w]].pos]
            /\ UNCHANGED wexc
  /\ UNCHANGED <<capacity, snap, store, lock, callback, stop_event, thread, ser,
                 cvars, rpc, lines_left, log>>

\* faulty variant: the writer does not wait for the lock
lock_free_unchecked == TRUE

\* with self._lock: (the writer waits for the lock)
lock_free == lock = <<>>

WAcquire(w) ==
  /\ wpc[w] = "lock"
  /\ lock_free
  /\ lock' = <<"w", w>>
  /\ Goto(w, "setlast")
  /\ UNCHANGED <<capacity, snap, store, callback, stop_event, thread, ser, wlocal,
                 cvars, rpc, lines_left, log>>

\* self._last_position = pos
WSetLast(w) ==
  /\ wpc[w] = "setlast"
  /\ last_position' = wpos[w]
  /\ Goto(w, "append")
  /\ UNCHANGED <<capacity, snap, history, lock, callback, stop_event, thread, ser,
                 wlocal, cvars, rpc, lines_left, log>>

\* faulty variant: the callback is skipped
after_record_no_callback == "check"

\* where the worker goes once the position is stored: if self._callback:
after_record == "cbcheck"

\* faulty variant: the lock is still held when the callback is reached
WAppend_keeps_lock(w) ==
  /\ wpc[w] = "append"
  /\ history' = deque_append(history, wpos[w], capacity)
  /\ log' = Append(log, <<"record", wpos[w], callback>>)
  /\ Goto(w, after_record)
  /\ UNCHANGED <<capacity, snap, last_position, lock, callback, stop_event, thread,
                 ser, wlocal, cvars, rpc, lines_left>>

\* self._history.append(pos), then the lock is released
WAppend(w) ==
  /\ wpc[w] = "append"
  /\ history' = deque_append(history, wpos[w], capacity)
  /\ lock' = <<>>
  /\ log' = Append(log, <<"record", wpos[w], callback>>)
  /\ Goto(w, after_record)
  /\ UNCHANGED <<capacity, snap, last_position, callback, stop_event, thread, ser,
                 wlocal, cvars, rpc, lines_left>>

\* if self._callback:
WCbCheck(w) ==
  /\ wpc[w] = "cbcheck"
  /\ IF callback = None
     THEN /\ Goto(w, "check")
          /\ log' = Append(log, <<"nocallback", wpos[w], callback>>)
          /\ wpos' = [wpos EXCEPT ![w] = NoPos]
     ELSE /\ Goto(w, "call")
          /\ UNCHANGED <<log, wpos>>
  /\ UNCHANGED <<capacity, snap, store, lock, callback, stop_event, thread, ser,
                 wline, wexc, cvars, rpc, lines_left>>

\* self._callback(pos): the callback returns or raises
WCall(w) ==
  /\ wpc[w] = "call"
  /\ log' = Append(log, <<"callback", wpos[w], callback>>)
  /\ \/ /\ Goto(w, "check")
        /\ wpos' = [wpos EXCEPT ![w] = NoPos]
        /\ UNCHANGED wexc
     \/ /\ Goto(w, "cberr")
        /\ wexc' = [wexc EXCEPT ![w] = "CallbackError"]
        /\ UNCHANGED wpos
  /\ UNCHANGED <<capacity, snap, store, lock, callback, stop_event, thread, ser,
                 wline, cvars, rpc, lines_left>>

\* faulty variant: the callback's exception ends the worker
after_callback_error_exit == "done"

\* where the worker goes after the callback's exception is printed
after_callback_error == "check"

\* except Exception as cb_e: print(...)
WCbErr(w) ==
  /\ wpc[w] = "cberr"
  /\ Goto(w, after_callback_error)
  /\ wpos' = [wpos EXCEPT ![w] = NoPos]
  /\ wexc' = [wexc EXCEPT ![w] = ""]
  /\ UNCHANGED <<capacity, snap, store, lock, callback, stop_event, thread, ser,
                 wline, cvars, rpc, lines_left, log>>

\* faulty variant: the outer handler ends the worker
after_loop_error_exit == "done"

\* where the worker goes after the outer handler's print and sleep(0.5)
after_loop_error == "check"

\* except Exception as e: print(...); time.sleep(0.5)
WExcept(w) ==
  /\ wpc[w] = "except"
  /\ Goto(w, after_loop_error)
  /\ wexc' = [wexc EXCEPT ![w] = ""]
  /\ UNCHANGED <<capacity, snap, store, lock, callback, stop_event, thread, ser,
                 wline, wpos, cvars, rpc, lines_left, log>>

\* ------------------------------------------- get_last / get_history
\* with self._lock:
RAcquire(op) ==
  /\ rpc = "idle"
  /\ lock = <<>>
  /\ lock' = <<"r">>
  /\ rpc' = op
  /\ UNCHANGED <<capacity, snap, store, callback, stop_event, thread, ser, wpc,
                 wlocal, cvars, lines_left, log>>

\* faulty variant: the last position is taken from the history
get_last_value_from_history ==
  IF history = <<>> THEN <<NoPos>> ELSE <<history[Len(history)]>>

\* return self._last_position
get_last_value == <<last_position>>

\* geofence_check_circle: last = self.get_last(); None when last is None,
\* else d <= radius_m (inside: the outcome of the comparison for the
\* caller's center and radius)
geofence_check_circle(inside) ==
  IF get_last_value[1] = NoPos THEN "None"
  ELSE IF inside THEN "True" ELSE "False"

\* return list(self._history)
get_history_value == history

RReturn ==
  /\ rpc # "idle"
  /\ lock' = <<>>
  /\ rpc' = "idle"
  /\ UNCHANGED <<capacity, snap, store, callback, stop_event, thread, ser, wpc,
                 wlocal, cvars, lines_left, log>>

\* ------------------------------------------------------ specification
Next ==
  \/ \E cb \in Callbacks : set_callback(cb)
  \/ \E c \in callers : StartCheck(c)
  \/ \E c \in callers : StartClear(c)
  \/ \E c \in callers : StartCreate(c)
  \/ \E c \in callers : StartRun(c)
  \/ \E c \in callers : StopSet(c)
  \/ \E c \in callers : StopJoin(c)
  \/ \E c \in callers : StopClose(c)
  \/ \E w \in Workers : WOpen(w)
  \/ \E w \in Workers : WCheck(w)
  \/ \E w \in Workers : WRead(w)
  \/ \E w \in Workers : WDecode(w)
  \/ \E w \in Workers : WAcquire(w)
  \/ \E w \in Workers : WSetLast(w)
  \/ \E w \in Workers : WAppend(w)
  \/ \E w \in Workers : WCbCheck(w)
  \/ \E w \in Workers : WCall(w)
  \/ \E w \in Workers : WCbErr(w)
  \/ \E w \in Workers : WExcept(w)
  \/ \E op \in {"get_last", "get_history"} : RAcquire(op)
  \/ RReturn

Spec == Init /\ [][Next]_vars

SpecConc == InitConc /\ [][Next]_vars

\* ------------------------------------------- a consumer keeps a list
\* faulty variant: get_history hands out the store's own container
returned_list_live_handle == [alias |-> TRUE, val |-> <<>>]

\* list(self._history): a new list with the elements of the history
returned_list == [alias |-> FALSE, val |-> get_history_value]

\* what the consumer's list holds now
SnapContents == IF snap.alias THEN history ELSE snap.val

\* get_history() returns to a consumer that keeps the list (as
\* save_history_csv keeps data)
RSnapshot ==
  /\ rpc = "get_history"
  /\ ~snap.taken
  /\ snap' = [taken |-> TRUE, alias |-> returned_list.alias,
              val |-> returned_list.val, edits |-> 0]
  /\ lock' = <<>>
  /\ rpc' = "idle"
  /\ UNCHANGED <<capacity, store, callback, stop_event, thread, ser, wpc,
                 wlocal, cvars, lines_left, log>>

\* the consumer deletes the first element of its list
ConsumerEdit ==
  /\ snap.taken
  /\ snap.edits = 0
  /\ SnapContents # <<>>
  /\ IF snap.alias
     THEN /\ history' = Tail(history)
          /\ snap' = [snap EXCEPT !.edits = 1]
     ELSE /\ history' = history
          /\ snap' = [snap EXCEPT !.val = Tail(@), !.edits = 1]
  /\ UNCHANGED <<capacity, last_position, lock, callback, stop_event, thread,
                 ser, wpc, wlocal, cvars, rpc, lines_left, log>>

\* capacity 2, two lines
InitSnap == InitWith({1}, {2}, 2)

NextSnap ==
  \/ Next
  \/ RSnapshot
  \/ ConsumerEdit

SpecSnap == InitSnap /\ [][NextSnap]_vars

\* ------------------------------------------------- fair scheduling
\* capacity 1, one line left
InitLive == InitWith({1}, {1}, 1)

\* a started thread keeps running: every step of _read_loop is taken when
\* it stays possible (readline returns within the port's timeout, the
\* callback returns or raises); a reader leaves its locked section; a
\* worker waiting for the lock gets it once it is released often enough
WStep(w) ==
  \/ WOpen(w)
  \/ WCheck(w)
  \/ WRead(w)
  \/ WDecode(w)
  \/ WSetLast(w)
  \/ WAppend(w)
  \/ WCbCheck(w)
  \/ WCall(w)
  \/ WCbErr(w)
  \/ WExcept(w)

Fairness ==
  /\ \A w \in Workers : WF_vars(WStep(w)) /\ SF_vars(WAcquire(w))
  /\ WF_vars(RReturn)

SpecLive == InitLive /\ [][Next]_vars /\ Fairness

\* ----------------------------------------- the converter on all inputs
\* the tracker was started with a callback, the worker opened the port
\* and has just read a line
InitConv ==
  /\ capacity = 1
  /\ history = <<>>
  /\ last_position = NoPos
  /\ lock = <<>>
  /\ callback \in Callbacks
  /\ stop_event = FALSE
  /\ thread = 1
  /\ ser = "open"
  /\ wpc = [w \in Workers |-> IF w = 1 THEN "decode" ELSE "unused"]
  /\ \E line \in ConvLines :
       wline = [w \in Workers |-> IF w = 1 THEN line ELSE NoLine]
  /\ wpos = [w \in Workers |-> NoPos]
  /\ wexc = [w \in Workers |-> ""]
  /\ callers = {1}
  /\ cpc = [c \in {1} |-> "idle"]
  /\ cres = [c \in {1} |-> "start:returned"]
  /\ crun = [c \in {1} |-> FALSE]
  /\ rpc = "idle"
  /\ lines_left = 0
  /\ log = <<>>
  /\ snap = NoSnap

\* the body of the loop for that line
NextConv ==
  \/ \E w \in Workers : WDecode(w)
  \/ \E w \in Workers : WAcquire(w)
  \/ \E w \in Workers : WSetLast(w)
  \/ \E w \in Workers : WAppend(w)
  \/ \E w \in Workers : WCbCheck(w)
  \/ \E w \in Workers : WCall(w)
  \/ \E w \in Workers : WCbErr(w)
  \/ \E w \in Workers : WExcept(w)

SpecConv == InitConv /\ [][NextConv]_vars

\* ============================================================ claims
Last(q) == q[Len(q)]

LastN(q, n) == SubSeq(q, Len(q) - n + 1, Len(q))

\* the positions recorded so far, in the order they were recorded
Recorded ==
  LET r == SelectSeq(log, LAMBDA e : e[1] = "record")
  IN [i \in 1..Len(r) |-> r[i][2]]

\* the positions handed to the callback so far, in order
Delivered ==
  LET r == SelectSeq(log, LAMBDA e : e[1] = "callback")
  IN [i \in 1..Len(r) |-> r[i][2]]

\* C1: for capacity c >= 1 the history never holds more than c positions,
\* and it (and what get_history returns) is exactly the last min(c, n) of
\* the n positions recorded, oldest first.
C1_HistoryBounded ==
  capacity >= 1 =>
    /\ Len(history) <= capacity
    /\ history = LastN(Recorded, Min(capacity, Len(Recorded)))
    /\ rpc = "get_history" =>
         get_history_value = LastN(Recorded, Min(capacity, Len(Recorded)))

\* C1 witness: get_history runs after more than capacity positions were
\* recorded (the oldest has been evicted).
C1_Witness ==
  /\ capacity >= 1
  /\ Len(Recorded) > capacity
  /\ Recorded[1] # Recorded[2]
  /\ rpc = "get_history"

\* C2: while a reader is inside get_last or get_history (it holds the
\* lock), last-position and history come from the same write: both empty,
\* or last-position is the newest history entry (capacity >= 1).
C2_ReaderSeesOneWrite ==
  (capacity >= 1 /\ rpc # "idle") =>
    \/ last_position = NoPos /\ history = <<>>
    \/ history # <<>> /\ last_position = Last(history)

\* C2 witness: a reader holds the lock after a record while a worker
\* waits for the lock with the next position.
C2_Witness ==
  /\ capacity >= 1
  /\ rpc # "idle"
  /\ history # <<>>
  /\ \E w \in Workers : wpc[w] = "lock" /\ wpos[w] # last_position

\* C3 (as claimed): when a worker's open of the line source failed, the
\* start() call reported SourceOpenFailed to its caller.  (The other half
\* of the claim holds by construction of WOpen: a worker whose open failed
\* goes straight to "failed" and never reads.)
C3_OpenFailureRaisedFromStart ==
  \A w \in Workers :
    wpc[w] = "failed" => \E c \in callers : cres[c] = "start:SourceOpenFailed"

\* C4 (as claimed): at most one worker executes the tracking loop, whatever
\* the interleaving of start() and stop() calls by concurrent callers.
C4_AtMostOneWorker == Cardinality(AliveWorkers) <= 1

\* a line that fails decoding: bad checksum, unparseable, or a fix
\* sentence whose angle string does not convert
FailsDecoding(line) ==
  \/ line.frame \in {"badsum", "unparse"}
  \/ /\ line.frame = "ok"
     /\ has_fix(line)
     /\ nmea_to_decimal_raises(line.lat) \/ nmea_to_decimal_raises(line.lon)

\* C5: decoding a line that fails decoding leaves last-position and the
\* history unchanged, records and delivers nothing, and leaves the worker
\* in the loop: at the loop test, or in the outer handler, which returns
\* to the loop test.
C5_BadLineDropped ==
  [][\A w \in Workers :
       /\ (wpc[w] = "decode" /\ FailsDecoding(wline[w]) /\ wpc'[w] # "decode") =>
            /\ last_position' = last_position
            /\ history' = history
            /\ log' = log
            /\ wpos'[w] = NoPos
            /\ wpc'[w] \in {"check", "except"}
       /\ (wpc[w] = "except" /\ wexc[w] = "ValueError" /\ wpc'[w] # "except") =>
            /\ wpc'[w] = "check"
            /\ UNCHANGED <<last_position, history, log>>]_vars

\* C5 witness: a malformed angle raised, the outer handler runs, and
\* nothing was stored.
C5_Witness ==
  \E w \in Workers :
    /\ wpc[w] = "except"
    /\ wexc[w] = "ValueError"
    /\ Len(log) = 2
    /\ lines_left = 0

\* C6 (as claimed): while the callback's failure is handled, the position
\* is last-position and the newest history entry; the handler returns to
\* the loop test with the store unchanged.
C6_CallbackFailureIsolated_Original ==
  \A w \in Workers :
    wpc[w] = "cberr" =>
      /\ last_position = wpos[w]
      /\ history # <<>>
      /\ Last(history) = wpos[w]

\* C6 (amended): the same for capacity >= 1 (with capacity 0 the history
\* stays empty); and for every capacity the handler leaves the store
\* unchanged and returns the worker to the loop test.
C6_CallbackFailureIsolated ==
  /\ [](\A w \in Workers :
          wpc[w] = "cberr" =>
            /\ last_position = wpos[w]
            /\ capacity >= 1 => (history # <<>> /\ Last(history) = wpos[w]))
  /\ [][\A w \in Workers :
          (wpc[w] = "cberr" /\ wpc'[w] # "cberr") =>
            /\ wpc'[w] = "check"
            /\ UNCHANGED <<last_position, history>>]_vars

\* C6 witness: the callback raised on the second position recorded.
C6_Witness ==
  \E w \in Workers :
    /\ wpc[w] = "cberr"
    /\ capacity >= 1
    /\ Len(Recorded) = 2

\* C7: the log alternates: every record is followed, before any other
\* record, by exactly one callback event with the same position (or, when
\* no callback is registered at the test, by none); a position recorded
\* while a callback was registered is always delivered; while a delivery
\* is outstanding the worker holding that position has not pulled another
\* line.
C7_RecordThenCallback ==
  /\ \A i \in 1..Len(log) :
       IF i % 2 = 1
       THEN log[i][1] = "record"
       ELSE /\ log[i][1] \in {"callback", "nocallback"}
            /\ log[i][2] = log[i-1][2]
            /\ log[i-1][3] # None => log[i][1] = "callback"
            /\ log[i][1] = "nocallback" => log[i][3] = None
  /\ Len(log) % 2 = 1 =>
       \E w \in Workers :
         /\ wpc[w] \in {"cbcheck", "call"}
         /\ wpos[w] = Last(log)[2]
  /\ (\A i \in 1..Len(log) : log[i][1] = "record" => log[i][3] # None) =>
       /\ Len(Delivered) <= Len(Recorded)
       /\ Delivered = SubSeq(Recorded, 1, Len(Delivered))
       /\ Len(log) % 2 = 0 => Delivered = Recorded

\* C7 witness: two different positions were recorded and delivered.
C7_Witness ==
  /\ Len(log) = 4
  /\ Delivered = Recorded
  /\ Len(Delivered) = 2
  /\ Delivered[1] # Delivered[2]

\* C8 (as claimed): once a stop() that was called with a live worker has
\* returned, the worker has exited and no start() was called since, the
\* line source is closed.
C8_SourceClosedAfterStop ==
  \A c \in callers :
    (cpc[c] = "idle" /\ cres[c] = "stop:returned" /\ crun[c] /\ AliveWorkers = {})
      => ser # "open"

\* a step of start() or stop()
CallerStep(c) == cpc'[c] # cpc[c] \/ cres'[c] # cres[c]

\* C9: no step of start() or stop() changes last-position, the history
\* or the callback; a stop() made with no live worker also leaves the
\* thread and every worker as they are; and the last step of a start()
\* that creates a worker leaves that worker alive with the stop flag
\* clear.
C9_StartStopFrame ==
  [][\A c \in callers :
       /\ CallerStep(c) => UNCHANGED <<last_position, history, callback>>
       /\ (CallerStep(c) /\ AliveWorkers = {}
             /\ (cpc[c] \in {"stop_join", "stop_close"} \/ cpc'[c] = "stop_join")) =>
            UNCHANGED <<thread, wpc, last_position, history, callback>>
       /\ (cpc[c] = "start_run" /\ cpc'[c] = "idle") =>
            (is_alive(thread)' /\ ~stop_event')]_vars

\* C9 witness: after a stop() and a second start() the second worker runs
\* and the store still holds what the first worker recorded.
C9_Witness ==
  \E c \in callers :
    /\ cres[c] = "start:returned"
    /\ wpc[1] = "done"
    /\ is_alive(2)
    /\ history # <<>>
    /\ callback # None
    /\ log = <<<<"record", last_position, None>>, <<"nocallback", last_position, None>>>>

\* C10: a read failure takes the worker to the outer handler, the handler
\* returns it to the loop test, the loop test sends it to read again
\* unless the stop flag is set, and a worker ends only by an open failure
\* or at the loop test with the stop flag set.
C10_ReadFailureNotFatal ==
  [][\A w \in Workers :
       /\ (wpc[w] = "read" /\ wexc'[w] = "SerialException") => wpc'[w] = "except"
       /\ (wpc[w] = "except" /\ wpc'[w] # "except") => wpc'[w] = "check"
       /\ (wpc[w] = "check" /\ wpc'[w] # "check") =>
            wpc'[w] = IF stop_event THEN "done" ELSE "read"
       /\ (is_alive(w) /\ ~is_alive(w)') =>
            \/ wpc[w] = "open" /\ wpc'[w] = "failed"
            \/ wpc[w] = "check" /\ stop_event /\ wpc'[w] = "done"]_vars

\* C10 witness: a read on the open port failed and the handler runs.
C10_Witness ==
  \E w \in Workers :
    /\ wpc[w] = "except"
    /\ wexc[w] = "SerialException"
    /\ ser = "open"
    /\ ~stop_event

\* C11: decoding an RMC sentence whose status is not 'A' produces no
\* Position, whatever its coordinates: last-position, history and the log
\* are unchanged and the worker returns to the loop test.
C11_VoidRMCDropped ==
  [][\A w \in Workers :
       (/\ wpc[w] = "decode"
        /\ wline[w].frame = "ok"
        /\ wline[w].kind = "RMC"
        /\ wline[w].status # "A"
        /\ wpc'[w] # "decode") =>
         /\ wpc'[w] = "check"
         /\ wpos'[w] = NoPos
         /\ UNCHANGED <<last_position, history, log>>]_vars

\* C11 witness: the worker has parsed a void RMC sentence with well-formed
\* coordinates, after a Position was already recorded.
C11_Witness ==
  \E w \in Workers :
    /\ wpc[w] = "decode"
    /\ wline[w] = LineRMCVoid
    /\ ~nmea_to_decimal_raises(wline[w].lat)
    /\ ~nmea_to_decimal_raises(wline[w].lon)
    /\ last_position # NoPos

\* C12: while a reader is inside get_last, what it returns is empty, and
\* geofence_check_circle returns None rather than a boolean, exactly when
\* nothing has been recorded; and last-position, once set, stays set.
C12_EmptyIffNothingRecorded ==
  /\ [](rpc = "get_last" =>
          /\ (get_last_value = <<NoPos>>) <=> (Recorded = <<>>)
          /\ \A inside \in BOOLEAN :
               /\ (geofence_check_circle(inside) = "None") <=> (Recorded = <<>>)
               /\ Recorded # <<>> =>
                    geofence_check_circle(inside) = (IF inside THEN "True" ELSE "False"))
  /\ [][last_position # NoPos => last_position' # NoPos]_vars

\* C12 witness: get_last runs after a record, with a history that holds
\* nothing (capacity 0).
C12_Witness ==
  /\ rpc = "get_last"
  /\ Recorded # <<>>
  /\ history = <<>>
  /\ geofence_check_circle(TRUE) = "True"

\* the code's condition for a fix, spelled out
IsFixSentence(line) ==
  /\ line.frame = "ok"
  /\ line.lat # <<>>
  /\ line.lon # <<>>
  /\ \/ line.kind = "GGA"
     \/ line.kind = "RMC" /\ line.status = "A"

\* C15: a pulled line yields a Position only if it is a GGA sentence with
\* latitude and longitude, or an active RMC sentence with both; any other
\* line leaves last-position, history and the log unchanged and returns
\* the worker to the loop test; and no more Positions are recorded than
\* lines were pulled.
C15_OnlyFixSentencesRecord ==
  /\ [](Len(Recorded) <= MaxLines - lines_left)
  /\ [][\A w \in Workers :
          (wpc[w] = "decode" /\ wpc'[w] # "decode") =>
            /\ wpc'[w] = "lock" => IsFixSentence(wline[w])
            /\ ~IsFixSentence(wline[w]) =>
                 /\ wpc'[w] = "check"
                 /\ wpos'[w] = NoPos
                 /\ UNCHANGED <<last_position, history, log>>]_vars

\* C15 witness: one line was skipped and the other recorded.
C15_Witness ==
  /\ lines_left = 0
  /\ Len(Recorded) = 1
  /\ \A w \in Workers : wpc[w] \notin {"decode", "except"} /\ wexc[w] = ""
  /\ \E w \in Workers : wpc[w] = "read"

\* C17 (as claimed): the worker never issues a read on a line source that
\* another thread has closed.
C17_NoReadOnClosedSource ==
  \A w \in Workers : wpc[w] = "read" => ser # "closed"

\* C19 (as claimed): when the last call was a start() that returned, and
\* no open has failed, the current thread is a live worker and the stop
\* flag is clear.
C19_StartNeverLost ==
  \A c \in callers :
    (/\ cpc[c] = "idle"
     /\ cres[c] \in {"start:returned", "start:noop"}
     /\ \A w \in Workers : wpc[w] # "failed") =>
      /\ thread # 0
      /\ is_alive(thread)
      /\ ~stop_event

\* C20: between the record and the end of the callback the worker does
\* not hold the lock, and last-position is the Position it delivers.
C20_CallbackOutsideLock ==
  \A w \in Workers :
    wpc[w] \in {"cbcheck", "call"} =>
      /\ lock # <<"w", w>>
      /\ last_position = wpos[w]

\* C20 witness: the callback is being invoked while a reader holds the
\* lock.
C20_Witness ==
  \E w \in Workers :
    /\ wpc[w] = "call"
    /\ lock = <<"r">>
    /\ rpc = "get_last"
    /\ Len(Recorded) = 2

RECURSIVE GCD(_, _)
GCD(a, b) == IF b = 0 THEN a ELSE GCD(b, a % b)

Abs(n) == IF n < 0 THEN -n ELSE n

\* two rationals are the same number
RatEq(a, b) ==
  LET ga == GCD(Abs(a[1]), a[2])
      gb == GCD(Abs(b[1]), b[2])
  IN a[1] \div ga = b[1] \div gb /\ a[2] \div ga = b[2] \div gb

\* the integer digits of an angle string (those before the dot)
IntegerDigits(s) == IF Find(s) = -1 THEN s ELSE Take(s, Find(s))

\* the digits after the dot
FractionDigits(s) == IF Find(s) = -1 THEN <<>> ELSE Drop(s, Find(s) + 1)

\* an angle string of digits with at most one dot and with a degree part:
\* more than two integer digits
IsAngle(s) ==
  /\ \A i \in 1..Len(s) : s[i] \in Digits \cup {"."}
  /\ Cardinality({i \in 1..Len(s) : s[i] = "."}) <= 1
  /\ Len(IntegerDigits(s)) >= 3

\* the value as specified: the degree part is every integer digit before
\* the last two, the minutes are the rest; degrees + minutes / 60, negated
\* for S and W
AngleAsSpecified(s, direction) ==
  LET ip == IntegerDigits(s)
      fp == FractionDigits(s)
      degrees == DigitsToNat(Take(ip, Len(ip) - 2))
      minutes == DigitsToNat(Drop(ip, Len(ip) - 2)) * Pow10(Len(fp)) + DigitsToNat(fp)
      num == degrees * 60 * Pow10(Len(fp)) + minutes
      den == 60 * Pow10(Len(fp))
  IN IF direction \in {"S", "W"} THEN <<-num, den>> ELSE <<num, den>>

\* C13 (as claimed): whenever the decode step turns a sentence into a
\* Position, each angle string of digits (with or without a fraction) was
\* converted with all integer digits before the last two as the degrees.
C13_DegreesBeforeLastTwoDigits ==
  [][\A w \in Workers :
       (wpc[w] = "decode" /\ wpc'[w] = "lock") =>
         /\ IsAngle(wline[w].lat) =>
              RatEq(wpos'[w].lat, AngleAsSpecified(wline[w].lat, wline[w].lat_dir))
         /\ IsAngle(wline[w].lon) =>
              RatEq(wpos'[w].lon, AngleAsSpecified(wline[w].lon, wline[w].lon_dir))]_vars

\* latitude in [-90, 90] and longitude in [-180, 180]
InRange(pos) ==
  /\ -90 * pos.lat[2] <= pos.lat[1]
  /\ pos.lat[1] <= 90 * pos.lat[2]
  /\ -180 * pos.lon[2] <= pos.lon[1]
  /\ pos.lon[1] <= 180 * pos.lon[2]

\* C14 (as claimed): every Position recorded or delivered to the callback
\* is in range.
C14_PositionsInRange ==
  \A i \in 1..Len(log) : log[i][1] \in {"record", "callback"} => InRange(log[i][2])

\* C18: under fair scheduling, once the stop flag is set while a worker is
\* alive, the worker eventually exits; it starts a read only from the loop
\* test with the flag clear, and exits only from the loop test with the
\* flag set, so a line in flight is processed to the end and no further
\* line is pulled.
C18_CooperativeCancellation ==
  /\ (stop_event /\ AliveWorkers # {}) ~> (AliveWorkers = {})
  /\ [][\A w \in Workers :
          /\ (wpc'[w] = "read" /\ wpc[w] # "read") =>
               (wpc[w] = "check" /\ ~stop_event)
          /\ (wpc'[w] = "done" /\ wpc[w] # "done") =>
               (wpc[w] = "check" /\ stop_event)]_vars

\* C18 witness: stop() found the worker alive, its join timed out, and
\* the worker has since delivered its line in flight and exited.
C18_Witness ==
  /\ stop_event
  /\ crun[1]
  /\ cres[1] = "stop:returned"
  /\ Len(Delivered) = 1
  /\ \E w \in Workers : wpc[w] = "done"

\* C16: the list a consumer got from get_history is a copy: while the
\* consumer does not edit it, no step (a record by the worker included)
\* changes its contents or length; and the consumer's edit of its list
\* leaves the store's history unchanged.
C16_SnapshotIsCopy ==
  [][/\ (snap.taken /\ snap'.edits = snap.edits) => SnapContents' = SnapContents
     /\ snap'.edits # snap.edits => history' = history]_vars

\* C16 witness: the list was taken when the history held one Position,
\* the consumer emptied it, and the worker has recorded another Position
\* since.
C16_Witness ==
  /\ snap.taken
  /\ snap.edits = 1
  /\ SnapContents = <<>>
  /\ Len(history) = 2
  /\ Len(Recorded) = 2

====
